---- MODULE Spec2Model ----
(***************************************************************************)
(* The attendance service of src/server.js (Express, with backups, import  *)
(* and export) and of its earlier variant src/unnamed/part_000 (the same   *)
(* AttendanceSystem class without backups, import and export).             *)
(*                                                                         *)
(* The store `data` is a JavaScript object: month key -> roster, and a     *)
(* roster is an object: member name -> {role, attendance, order}.  Both    *)
(* are modelled as functions whose DOMAIN is the set of own keys.  The     *)
(* insertion order of own keys is not modelled: nothing below reads it.    *)
(*                                                                         *)
(* Strings of the source that are not ASCII are written in romanised form: *)
(*   "unyeongjin"    the admin-tier role       (ROLE_REQUIREMENTS key 1)   *)
(*   "pacer"         the pacer role            (ROLE_REQUIREMENTS key 2)   *)
(*   "pacer gangnam" the pacer-gangnam role    (ROLE_REQUIREMENTS key 3)   *)
(*   "photo"         the photo role            (ROLE_REQUIREMENTS key 4)   *)
(*   "mijeong"       the placeholder role of importMonthData               *)
(***************************************************************************)
EXTENDS Integers, Sequences, FiniteSets, TLC

VARIABLES
  data,     \* AttendanceSystem.data, the in-memory store
  disk,     \* the content of DATA_FILE, the persisted document
  backups,  \* the files of BACKUP_DIR: file name -> [backupDate, description, data]
  now,      \* the host clock, in seconds
  tz,       \* the host's UTC offset, in hours
  last,     \* the last request served and how it was answered
  reply     \* the body of the last answer to a read (dates, statistics, members, report)

vars == <<data, disk, backups, now, tz, last, reply>>

\* ------------------------------------------------------------------------
\* JavaScript values
\* ------------------------------------------------------------------------

\* An object literal {} (and the result of JSON.parse of "{}").
EmptyObject == [k \in {} |-> k]

\* Property names every plain object inherits from Object.prototype, and
\* whose inherited value is a function or, for "__proto__", the prototype
\* object (truthy values without role or attendance).  A lookup obj[name]
\* with such a name is truthy whether or not obj has the own key.
ProtoNames == {"constructor", "toString", "valueOf", "hasOwnProperty", "__proto__"}

\* Own keys of an object: Object.keys(obj).
Keys(obj) == DOMAIN obj

\* The truthiness of obj[name], for an object whose own values are objects.
Truthy(obj, name) == name \in Keys(obj) \/ name \in ProtoNames

\* obj with obj[key] = val assigned.  An assignment to "__proto__" goes to
\* the setter of Object.prototype: it adds no own key (the prototype it
\* replaces is not represented).
Put(obj, key, val) ==
  IF key = "__proto__" THEN obj
  ELSE [k \in Keys(obj) \cup {key} |-> IF k = key THEN val ELSE obj[k]]

\* obj after `delete obj[key]`: only an own key is removed.
Del(obj, key) == [k \in Keys(obj) \ {key} |-> obj[k]]

\* JavaScript values a number field holds: an integer, NaN, undefined, and
\* null (what JSON.stringify writes for NaN).
Num(n) == [t |-> "number", n |-> n]
NaN == [t |-> "NaN", n |-> 0]
Undefined == [t |-> "undefined", n |-> 0]
Null == [t |-> "null", n |-> 0]

\* JSON values a request body can carry in a scalar field: a number, a
\* string (its characters), or nothing at all (undefined).
JNum(n) == [k |-> "number", n |-> n, s |-> <<>>]
JStr(s) == [k |-> "string", n |-> 0, s |-> s]
JUndefined == [k |-> "undefined", n |-> 0, s |-> <<>>]

Digits == <<"0", "1", "2", "3", "4", "5", "6", "7", "8", "9">>

IsDigit(c) == \E i \in 1..10 : Digits[i] = c

DigitVal(c) == (CHOOSE i \in 1..10 : Digits[i] = c) - 1

\* String(n) for an integer n.
RECURSIVE ToStr(_)
ToStr(n) ==
  IF n < 0 THEN "-" \o ToStr(-n)
  ELSE IF n < 10 THEN Digits[n + 1]
  ELSE ToStr(n \div 10) \o Digits[(n % 10) + 1]

\* String(n).padStart(2, '0') for n >= 0.
Pad2(n) == IF n < 10 THEN "0" \o ToStr(n) ELSE ToStr(n)

\* The longest prefix of digits of s from position i on, as a number.
RECURSIVE DigitsValue(_, _, _)
DigitsValue(s, i, acc) ==
  IF i > Len(s) \/ ~IsDigit(s[i]) THEN acc
  ELSE DigitsValue(s, i + 1, acc * 10 + DigitVal(s[i]))

RECURSIVE SkipSpaces(_, _)
SkipSpaces(s, i) == IF i <= Len(s) /\ s[i] = " " THEN SkipSpaces(s, i + 1) ELSE i

\* parseInt of a string: leading blanks, an optional sign, then digits;
\* NaN when no digit follows.
ParseIntStr(s) ==
  LET i == SkipSpaces(s, 1)
      neg == i <= Len(s) /\ s[i] = "-"
      j == IF i <= Len(s) /\ s[i] \in {"-", "+"} THEN i + 1 ELSE i
  IN IF j > Len(s) \/ ~IsDigit(s[j]) THEN NaN
     ELSE Num((IF neg THEN -1 ELSE 1) * DigitsValue(s, j, 0))

\* parseInt(v) of a JSON value: the value is converted to a string first, so
\* an integer comes back as itself and undefined ("undefined") gives NaN.
parseInt(v) ==
  CASE v.k = "number" -> Num(v.n)
    [] v.k = "string" -> ParseIntStr(v.s)
    [] OTHER -> NaN

\* ------------------------------------------------------------------------
\* AttendanceSystem: the store
\* ------------------------------------------------------------------------

getMonthKey(year, month) ==
  ToStr(year) \o "-" \o (IF month < 10 THEN "0" \o ToStr(month) ELSE ToStr(month))

\* JSON.parse(JSON.stringify(d)) of a store: NaN is written as null.
JSONDocument(d) ==
  [monthKey \in Keys(d) |->
     [name \in Keys(d[monthKey]) |->
        [d[monthKey][name] EXCEPT
           !.attendance = [date \in Keys(@) |-> IF @[date] = NaN THEN Null ELSE @[date]]]]]

\* What a method leaves behind: the store, whether saveData ran, and the
\* value returned ("true", "false", or "threw" for an uncaught TypeError).
Res(d, saved, ret) == [data |-> d, saved |-> saved, ret |-> ret]

initializeMonth(d, year, month) ==
  LET monthKey == getMonthKey(year, month)
  IN IF monthKey \notin Keys(d)
     THEN Res(Put(d, monthKey, EmptyObject), TRUE, "undefined")
     ELSE Res(d, FALSE, "undefined")

\* A mutant: the duplicate check is dropped and the record is overwritten.
addMemberOverwrites(d, year, month, name, role) ==
  LET monthKey == getMonthKey(year, month)
      d1 == initializeMonth(d, year, month).data
  IN Res(Put(d1, monthKey,
             Put(d1[monthKey], name,
                 [role |-> role, attendance |-> EmptyObject,
                  order |-> Cardinality(Keys(d1[monthKey]))])),
         TRUE, "true")

addMember(d, year, month, name, role) ==
  LET monthKey == getMonthKey(year, month)
      init == initializeMonth(d, year, month)
      d1 == init.data
  IN IF ~Truthy(d1[monthKey], name)
     THEN Res(Put(d1, monthKey,
                  Put(d1[monthKey], name,
                      [role |-> role, attendance |-> EmptyObject,
                       order |-> Cardinality(Keys(d1[monthKey]))])),
              TRUE, "true")
     ELSE Res(d1, init.saved, "false")

\* A mutant: deleting the last member of a month removes the month.
deleteMemberDropsEmptyMonth(d, year, month, name) ==
  LET monthKey == getMonthKey(year, month)
  IN IF monthKey \in Keys(d) /\ Truthy(d[monthKey], name)
     THEN (IF Keys(d[monthKey]) \subseteq {name}
           THEN Res(Del(d, monthKey), TRUE, "true")
           ELSE Res(Put(d, monthKey, Del(d[monthKey], name)), TRUE, "true"))
     ELSE Res(d, FALSE, "false")

deleteMember(d, year, month, name) ==
  LET monthKey == getMonthKey(year, month)
  IN IF monthKey \in Keys(d) /\ Truthy(d[monthKey], name)
     THEN Res(Put(d, monthKey, Del(d[monthKey], name)), TRUE, "true")
     ELSE Res(d, FALSE, "false")

\* With an inherited name the role is assigned to the inherited function
\* object, not to the store.
updateMemberRole(d, year, month, name, newRole) ==
  LET monthKey == getMonthKey(year, month)
  IN IF monthKey \in Keys(d) /\ Truthy(d[monthKey], name)
     THEN IF name \in Keys(d[monthKey])
          THEN Res(Put(d, monthKey,
                       Put(d[monthKey], name,
                           [d[monthKey][name] EXCEPT !.role = newRole])),
                   TRUE, "true")
          ELSE Res(d, TRUE, "true")
     ELSE Res(d, FALSE, "false")

\* A mutant: of several pairs naming a member, the first one wins.
RECURSIVE ApplyOrdersFirstWins(_, _, _)
ApplyOrdersFirstWins(roster, memberOrders, i) ==
  IF i > Len(memberOrders) THEN roster
  ELSE LET memberOrder == memberOrders[i]
       IN IF /\ memberOrder.name \in Keys(roster)
             /\ ~\E j \in 1..(i - 1) : memberOrders[j].name = memberOrder.name
          THEN ApplyOrdersFirstWins(
                 Put(roster, memberOrder.name,
                     [roster[memberOrder.name] EXCEPT !.order = memberOrder.order]),
                 memberOrders, i + 1)
          ELSE ApplyOrdersFirstWins(roster, memberOrders, i + 1)

\* The loop of updateMemberOrder over memberOrders[i..], on one roster.
RECURSIVE ApplyOrders(_, _, _)
ApplyOrders(roster, memberOrders, i) ==
  IF i > Len(memberOrders) THEN roster
  ELSE LET memberOrder == memberOrders[i]
       IN IF memberOrder.name \in Keys(roster)
          THEN ApplyOrders(Put(roster, memberOrder.name,
                               [roster[memberOrder.name] EXCEPT !.order = memberOrder.order]),
                           memberOrders, i + 1)
          ELSE ApplyOrders(roster, memberOrders, i + 1)

updateMemberOrder(d, year, month, memberOrders) ==
  LET monthKey == getMonthKey(year, month)
  IN IF monthKey \in Keys(d)
     THEN Res(Put(d, monthKey, ApplyOrders(d[monthKey], memberOrders, 1)), TRUE, "true")
     ELSE Res(d, FALSE, "false")

\* A mutant: January does not roll back to December of the year before.
PrevYearMonthNoRollback(year, month) == <<year, month - 1>>

\* The previous calendar month of copyFromPreviousMonth.
PrevYearMonth(year, month) ==
  IF month - 1 = 0 THEN <<year - 1, 12>> ELSE <<year, month - 1>>

\* A mutant: the attendance is carried over with the role and the order.
CopiedRosterKeepsAttendance(prev) == prev

\* The roster copyFromPreviousMonth builds from the previous month's.
CopiedRoster(prev) ==
  [name \in Keys(prev) |->
     [role |-> prev[name].role, attendance |-> EmptyObject, order |-> prev[name].order]]

copyFromPreviousMonth(d, year, month) ==
  LET currentMonthKey == getMonthKey(year, month)
      p == PrevYearMonth(year, month)
      prevMonthKey == getMonthKey(p[1], p[2])
  IN IF prevMonthKey \in Keys(d)
     THEN Res(Put(d, currentMonthKey, CopiedRoster(d[prevMonthKey])), TRUE, "true")
     ELSE Res(d, FALSE, "false")

\* With an inherited name, member.attendance is undefined and the
\* assignment throws a TypeError before anything is written.
updateAttendance(d, year, month, name, date, status) ==
  LET monthKey == getMonthKey(year, month)
  IN IF monthKey \in Keys(d) /\ Truthy(d[monthKey], name)
     THEN IF name \in Keys(d[monthKey])
          THEN Res(Put(d, monthKey,
                       Put(d[monthKey], name,
                           [d[monthKey][name] EXCEPT
                              !.attendance = Put(@, date, parseInt(status))])),
                   TRUE, "true")
          ELSE Res(d, FALSE, "threw")
     ELSE Res(d, FALSE, "false")

getMonthMembers(d, year, month) ==
  LET monthKey == getMonthKey(year, month)
  IN IF monthKey \in Keys(d) THEN d[monthKey] ELSE EmptyObject

\* ------------------------------------------------------------------------
\* Dates: the Date object of the host, whose local time is UTC + tz hours
\* ------------------------------------------------------------------------

IsLeapYear(y) == (y % 4 = 0 /\ y % 100 # 0) \/ y % 400 = 0

DaysInMonth(y, m) ==
  IF m = 2 THEN (IF IsLeapYear(y) THEN 29 ELSE 28)
  ELSE IF m \in {4, 6, 9, 11} THEN 30 ELSE 31

\* The weekday of the calendar day y-m-d, 0 = Sunday .. 6 = Saturday.
MonthOffsets == <<0, 3, 2, 5, 0, 3, 5, 1, 4, 6, 2, 4>>
Weekday(y, m, d) ==
  LET yy == IF m < 3 THEN y - 1 ELSE y
  IN (yy + (yy \div 4) - (yy \div 100) + (yy \div 400) + MonthOffsets[m] + d) % 7

\* The calendar day before y-m-d.
PrevDay(y, m, d) ==
  IF d > 1 THEN <<y, m, d - 1>>
  ELSE IF m > 1 THEN <<y, m - 1, DaysInMonth(y, m - 1)>>
  ELSE <<y - 1, 12, 31>>

\* date.toISOString().split('T')[0] of the Date that is local midnight of
\* y-m-d: the UTC calendar day of that instant, which is the day before on a
\* host east of UTC.
UTCDayOfLocalMidnight(y, m, d, offset) ==
  IF offset > 0 THEN PrevDay(y, m, d) ELSE <<y, m, d>>

\* new Date(dateStr).getDay() for dateStr = "YYYY-MM-DD", which is parsed as
\* UTC midnight: the local weekday of that instant, which is the weekday
\* before on a host west of UTC.
LocalWeekdayOfUTCMidnight(day, offset) ==
  LET w == Weekday(day[1], day[2], day[3])
  IN IF offset < 0 THEN (w + 6) % 7 ELSE w

\* The "YYYY-MM-DD" string of a calendar day (years of four digits).
DateString(day) == ToStr(day[1]) \o "-" \o Pad2(day[2]) \o "-" \o Pad2(day[3])

\* The loop of getMonthDates from local day d on: the calendar days pushed,
\* in order.  The loop ends when the local month changes.
RECURSIVE MonthDaysFrom(_, _, _, _)
MonthDaysFrom(year, month, d, offset) ==
  IF d > DaysInMonth(year, month) THEN <<>>
  ELSE LET weekday == Weekday(year, month, d)
           rest == MonthDaysFrom(year, month, d + 1, offset)
       IN IF weekday = 1 \/ weekday = 3 \/ weekday = 4
          THEN <<UTCDayOfLocalMidnight(year, month, d, offset)>> \o rest
          ELSE rest

\* The calendar days getMonthDates names, on a host at UTC + offset.  For a
\* month outside 1..12 the Date constructor rolls into another year, whose
\* getMonth() is never month - 1: the loop does not run.
MonthDays(year, month, offset) ==
  IF month \in 1..12 THEN MonthDaysFrom(year, month, 1, offset) ELSE <<>>

getMonthDates(year, month, offset) ==
  LET days == MonthDays(year, month, offset)
  IN [i \in 1..Len(days) |-> DateString(days[i])]

\* ------------------------------------------------------------------------
\* Statistics
\* ------------------------------------------------------------------------

\* A mutant: the Wednesday requirement of "pacer gangnam" is lost.
RoleRequirementsNoWednesday ==
  [role \in {"unyeongjin", "pacer", "pacer gangnam", "photo"} |->
     CASE role = "unyeongjin" -> [total |-> 0, wednesday |-> 0]
       [] role = "pacer" -> [total |-> 3, wednesday |-> 0]
       [] role = "pacer gangnam" -> [total |-> 3, wednesday |-> 0]
       [] role = "photo" -> [total |-> 1, wednesday |-> 0]]

ROLE_REQUIREMENTS ==
  [role \in {"unyeongjin", "pacer", "pacer gangnam", "photo"} |->
     CASE role = "unyeongjin" -> [total |-> 0, wednesday |-> 0]
       [] role = "pacer" -> [total |-> 3, wednesday |-> 0]
       [] role = "pacer gangnam" -> [total |-> 3, wednesday |-> 2]
       [] role = "photo" -> [total |-> 1, wednesday |-> 0]]

\* ROLE_REQUIREMENTS[role] || { total: 0, wednesday: 0 }.  For a role that
\* is an inherited property name the lookup gives a function object, which
\* is truthy and has neither field.
RequirementsOf(role) ==
  IF role \in DOMAIN ROLE_REQUIREMENTS
  THEN [total |-> Num(ROLE_REQUIREMENTS[role].total),
        wednesday |-> Num(ROLE_REQUIREMENTS[role].wednesday)]
  ELSE IF role \in ProtoNames
  THEN [total |-> Undefined, wednesday |-> Undefined]
  ELSE [total |-> Num(0), wednesday |-> Num(0)]

\* n < v for an integer n and a JavaScript value v: false when v is
\* undefined (it converts to NaN).
LessThan(n, v) == v.t = "number" /\ n < v.n

\* The counting loop of calculateMonthlyStats over days[i..]: the numbers of
\* dates marked 1, and of those whose Date has getDay() = 3.
RECURSIVE CountFrom(_, _, _, _)
CountFrom(attendance, days, i, offset) ==
  IF i > Len(days) THEN [total |-> 0, wednesday |-> 0]
  ELSE LET rest == CountFrom(attendance, days, i + 1, offset)
           dateStr == DateString(days[i])
       IN IF dateStr \in Keys(attendance) /\ attendance[dateStr] = Num(1)
          THEN [total |-> rest.total + 1,
                wednesday |-> rest.wednesday +
                  (IF LocalWeekdayOfUTCMidnight(days[i], offset) = 3 THEN 1 ELSE 0)]
          ELSE rest

\* The record calculateMonthlyStats returns for a member with this role and
\* these counts.
StatsRecord(role, count) ==
  LET requirements == RequirementsOf(role)
      meetsRequirement ==
        IF role # "unyeongjin"
        THEN ~(LessThan(count.total, requirements.total)
               \/ LessThan(count.wednesday, requirements.wednesday))
        ELSE TRUE
  IN [total |-> count.total,
      wednesday |-> count.wednesday,
      meets_requirement |-> meetsRequirement,
      required_total |-> requirements.total,
      required_wednesday |-> requirements.wednesday]

\* The record returned when members[name] is falsy.
AbsentStats == [total |-> 0, wednesday |-> 0, meets_requirement |-> FALSE]

\* The TypeError of reading attendance[dateStr] when attendance is undefined.
StatsThrew == [error |-> "TypeError"]

\* With a name that is not a member but is inherited from Object.prototype,
\* members[name] is a function: its role and attendance are undefined, and
\* the first attendance[dateStr] throws.
calculateMonthlyStats(d, offset, year, month, name) ==
  LET members == getMonthMembers(d, year, month)
      days == MonthDays(year, month, offset)
  IN IF ~Truthy(members, name) THEN AbsentStats
     ELSE IF name \notin Keys(members)
     THEN (IF Len(days) > 0 THEN StatsThrew
           ELSE StatsRecord("undefined", [total |-> 0, wednesday |-> 0]))
     ELSE StatsRecord(members[name].role,
                      CountFrom(members[name].attendance, days, 1, offset))

\* A value of an attendance map is truthy when it is a number other than 0.
TruthyValue(v) == v.t = "number" /\ v.n # 0

\* The dates of a list, as a set.
DateSet(dates) == {dates[i] : i \in 1..Len(dates)}

\* exportMonthData: for every member of the month the role, the order, the
\* statistics and one attendance value for each meeting date, 0 where the
\* member's map holds none.  exportDate and the order of the keys of the
\* report are not represented.
exportMonthData(d, offset, year, month) ==
  LET members == getMonthMembers(d, year, month)
      dates == getMonthDates(year, month, offset)
      Marked(memberInfo, dateStr) ==
        IF dateStr \in Keys(memberInfo.attendance)
           /\ TruthyValue(memberInfo.attendance[dateStr])
        THEN memberInfo.attendance[dateStr] ELSE Num(0)
      report == [name \in Keys(members) |->
                   [role |-> members[name].role,
                    order |-> members[name].order,
                    stats |-> calculateMonthlyStats(d, offset, year, month, name),
                    attendance |-> [dateStr \in DateSet(dates) |->
                                      Marked(members[name], dateStr)]]]
  IN [year |-> year, month |-> month, members |-> report, dates |-> dates]

\* ------------------------------------------------------------------------
\* Backups and import (src/server.js only)
\* ------------------------------------------------------------------------

\* A text is a sequence of pieces, each a string.  In a description the
\* pieces are its characters; a Hangul syllable of the source is one
\* character, written in romanised form.
Hangul == {"bog", "won", "jeon", "baeg", "eop"}
Letters ==
  {"a", "b", "c", "d", "e", "f", "g", "h", "i", "j", "k", "l", "m",
   "n", "o", "p", "q", "r", "s", "t", "u", "v", "w", "x", "y", "z",
   "A", "B", "C", "D", "E", "F", "G", "H", "I", "J", "K", "L", "M",
   "N", "O", "P", "Q", "R", "S", "T", "U", "V", "W", "X", "Y", "Z"}

\* The characters of String(n), for n >= 0.
RECURSIVE ToChars(_)
ToChars(n) ==
  IF n < 10 THEN <<Digits[n + 1]>> ELSE Append(ToChars(n \div 10), Digits[(n % 10) + 1])

\* description.replace(/[^a-zA-Z0-9ga-hih]/g, '_'): every character that is
\* not a letter, a digit or a Hangul syllable becomes "_".
Sanitize(description) ==
  [i \in 1..Len(description) |->
     IF description[i] \in Letters \/ IsDigit(description[i]) \/ description[i] \in Hangul
     THEN description[i] ELSE "_"]

\* The description of the backup restoreFromBackup takes first.
RestoreDescription == <<"bog", "won", "_", "jeon", "_", "baeg", "eop">>

\* The description of the backup importMonthData takes first.
ImportDescription(year, month) ==
  <<"i", "m", "p", "o", "r", "t", "_", "jeon", "_", "baeg", "eop", "_">>
    \o ToChars(year) \o <<"_">> \o ToChars(month)

\* The local calendar day on which the host starts; the clock `now` counts
\* the seconds since the local midnight of that day.
LocalDay == <<2025, 1, 15>>
SecondsPerDay == 86400

\* The calendar day after a day, and n days after it.
DayAfter(day) ==
  IF day[3] < DaysInMonth(day[1], day[2]) THEN <<day[1], day[2], day[3] + 1>>
  ELSE IF day[2] < 12 THEN <<day[1], day[2] + 1, 1>>
  ELSE <<day[1] + 1, 1, 1>>
RECURSIVE DaysAfter(_, _)
DaysAfter(day, n) == IF n = 0 THEN day ELSE DaysAfter(DayAfter(day), n - 1)

\* The local date and the local time of day at clock time t.
LocalDateAt(t) == DaysAfter(LocalDay, t \div SecondsPerDay)
HoursAt(t) == (t % SecondsPerDay) \div 3600
MinutesAt(t) == (t \div 60) % 60
SecondsAt(t) == t % 60

\* A file name is a text whose pieces are words rather than characters: the
\* prefixes "manual_" and "backup_", the date, the time, ".json", and "/"
\* and ".." in a name a client sends.

\* The name createManualBackup gives the file at clock time t.
ManualBackupName(t, description) ==
  LET dateStr == DateString(LocalDateAt(t))
      timeStr == Pad2(HoursAt(t)) \o Pad2(MinutesAt(t)) \o Pad2(SecondsAt(t))
      suffix == IF description # <<>> THEN <<"_">> \o Sanitize(description) ELSE <<>>
  IN <<"manual_", "backup_", dateStr, "_", timeStr>> \o suffix \o <<".json">>

\* The name createAutoBackup gives the file at clock time t.
AutoBackupName(t) ==
  LET dateStr == DateString(LocalDateAt(t))
      timeStr == Pad2(HoursAt(t)) \o Pad2(MinutesAt(t))
  IN <<"backup_", dateStr, "_", timeStr, ".json">>

\* file.startsWith(prefix) and file.endsWith(suffix), for a prefix or suffix
\* that is one piece.
StartsWith(file, prefix) == Len(file) > 0 /\ file[1] = prefix
EndsWith(file, suffix) == Len(file) > 0 /\ file[Len(file)] = suffix

\* fs.writeFileSync: the file of that name is written, or overwritten.
WriteFile(files, name, content) ==
  [f \in Keys(files) \cup {name} |-> IF f = name THEN content ELSE files[f]]

\* fs.unlinkSync.
Unlink(files, name) == [f \in Keys(files) \ {name} |-> files[f]]

\* The files of BACKUP_DIR after createManualBackup(description) at clock
\* time t with store d.  backupDate is also the mtime of the file.
createManualBackup(files, t, d, description) ==
  WriteFile(files, ManualBackupName(t, description),
            [backupDate |-> t, description |-> description, data |-> JSONDocument(d)])

\* The retention period of cleanOldBackups, in days.
RetentionDays == 30

\* cleanOldBackups at clock time t: every file named backup_*.json whose
\* mtime is more than thirty days back is removed.
cleanOldBackups(files, t) ==
  LET thirtyDaysAgo == t - RetentionDays * SecondsPerDay
      old == {file \in Keys(files) :
                /\ StartsWith(file, "backup_") /\ EndsWith(file, ".json")
                /\ files[file].backupDate < thirtyDaysAgo}
  IN [file \in Keys(files) \ old |-> files[file]]

\* The files of BACKUP_DIR after createAutoBackup at clock time t with
\* store d: the file is written, then the old backups are cleaned.
createAutoBackup(files, t, d) ==
  cleanOldBackups(
    WriteFile(files, AutoBackupName(t), [backupDate |-> t, data |-> JSONDocument(d)]), t)

\* The segments of a file name a client sends, split at "/".
RECURSIVE SplitPath(_)
SplitPath(filename) ==
  IF filename = <<>> THEN <<<<>>>>
  ELSE LET rest == SplitPath(Tail(filename))
       IN IF Head(filename) = "/" THEN <<<<>>>> \o rest
          ELSE <<<<Head(filename)>> \o Head(rest)>> \o Tail(rest)

\* path.join normalises: an empty segment is dropped and ".." removes the
\* segment before it.
RECURSIVE Normalize(_, _)
Normalize(path, segments) ==
  IF segments = <<>> THEN path
  ELSE IF Head(segments) = <<>> THEN Normalize(path, Tail(segments))
  ELSE IF Head(segments) = <<"..">>
  THEN Normalize(IF path = <<>> THEN path ELSE SubSeq(path, 1, Len(path) - 1),
                 Tail(segments))
  ELSE Normalize(Append(path, Head(segments)), Tail(segments))

\* path.join(BACKUP_DIR, filename): a file of BACKUP_DIR, DATA_FILE (which
\* lies beside BACKUP_DIR), or a path the model has no file at.
BACKUP_DIR == <<"backups">>
DATA_FILE == <<"attendance_data.json">>
JoinBackupDir(filename) ==
  LET path == Normalize(<<BACKUP_DIR>>, SplitPath(filename))
  IN IF Len(path) = 2 /\ path[1] = BACKUP_DIR THEN [dir |-> "backups", name |-> path[2]]
     ELSE IF path = <<DATA_FILE>> THEN [dir |-> "cwd", name |-> DATA_FILE]
     ELSE [dir |-> "elsewhere", name |-> <<>>]

\* fs.existsSync(filePath).  DATA_FILE is taken to exist once a document
\* with a month has been saved.
ExistsSync(files, doc, filePath) ==
  \/ filePath.dir = "backups" /\ filePath.name \in Keys(files)
  \/ filePath.dir = "cwd" /\ doc # EmptyObject

\* What restoreFromBackup and importMonthData leave behind: the store, the
\* backup files, whether saveData ran and whether success was reported.
BackupRes(d, files, saved, success) ==
  [data |-> d, backups |-> files, saved |-> saved, ret |-> IF success THEN "true" ELSE "false"]

\* restoreFromBackup with store d, persisted document doc and backup files
\* files.  backupData.data || {} is the data of a backup file; DATA_FILE
\* parses to the months, which have no data field.
restoreFromBackup(d, doc, files, t, filename) ==
  LET filePath == JoinBackupDir(filename)
      backupData == IF filePath.dir = "backups" THEN files[filePath.name].data
                    ELSE EmptyObject
  IN IF ~ExistsSync(files, doc, filePath) THEN BackupRes(d, files, FALSE, FALSE)
     ELSE BackupRes(backupData,
                    createManualBackup(files, t, d, RestoreDescription), TRUE, TRUE)

\* A member entry of an import payload: null, or an object whose role,
\* attendance and order may be missing.
NullEntry(name) ==
  [name |-> name, null |-> TRUE, role |-> "", hasAttendance |-> FALSE,
   attendance |-> EmptyObject, hasOrder |-> FALSE, order |-> 0]
Entry(name, role, hasAttendance, attendance, hasOrder, order) ==
  [name |-> name, null |-> FALSE, role |-> role, hasAttendance |-> hasAttendance,
   attendance |-> attendance, hasOrder |-> hasOrder, order |-> order]

\* The record importMonthData builds for the i-th entry (i counts from 0).
ImportedRecord(memberData, i) ==
  [role |-> IF memberData.role # "" THEN memberData.role ELSE "mijeong",
   attendance |-> IF memberData.hasAttendance THEN memberData.attendance ELSE EmptyObject,
   order |-> IF memberData.hasOrder THEN memberData.order ELSE i]

\* The loop of importMonthData over memberEntries[i..] (i counts from 1
\* here): the roster built, and whether reading a null entry threw.
RECURSIVE ImportEntries(_, _, _)
ImportEntries(roster, memberEntries, i) ==
  IF i > Len(memberEntries) THEN [roster |-> roster, threw |-> FALSE]
  ELSE IF memberEntries[i].null THEN [roster |-> roster, threw |-> TRUE]
  ELSE ImportEntries(Put(roster, memberEntries[i].name,
                         ImportedRecord(memberEntries[i], i - 1)),
                     memberEntries, i + 1)

\* importData is [hasMembers, members]: members is looped over only when
\* the payload has it.  When the loop throws, the catch reports failure:
\* the month has been replaced by the roster built so far and saveData has
\* not run.
importMonthData(d, files, t, year, month, importData) ==
  LET monthKey == getMonthKey(year, month)
      files1 == createManualBackup(files, t, d, ImportDescription(year, month))
      built == IF importData.hasMembers
               THEN ImportEntries(EmptyObject, importData.members, 1)
               ELSE [roster |-> EmptyObject, threw |-> FALSE]
  IN BackupRes(Put(d, monthKey, built.roster), files1, ~built.threw, ~built.threw)

\* ------------------------------------------------------------------------
\* The HTTP handlers
\* ------------------------------------------------------------------------

\* The status a handler answers with for a method's result: true -> 200,
\* false -> 400, an exception caught by the handler's try/catch -> 500.
StatusOf(ret) == IF ret = "true" THEN 200 ELSE IF ret = "threw" THEN 500 ELSE 400

\* A request and its response: the route, the year, month and member name it
\* names ("" when it names none), the role it carries ("" when it carries
\* none), what the store method returned ("none" when none was called) and
\* the HTTP status.
Request(op, year, month, name, role, ret, status) ==
  [op |-> op, year |-> year, month |-> month, name |-> name, role |-> role,
   ret |-> ret, status |-> status]

\* Before the first request; and a response body nothing has been put in.
NoRequest == Request("none", 0, 0, "", "", "none", 0)
NoReply ==
  [dates |-> <<>>, stats |-> EmptyObject, members |-> EmptyObject, report |-> EmptyObject]

\* The handler called a store method, which left r behind.
Serve(op, year, month, name, role, r) ==
  /\ data' = r.data
  /\ disk' = IF r.saved THEN JSONDocument(r.data) ELSE disk
  /\ last' = Request(op, year, month, name, role, r.ret, StatusOf(r.ret))
  /\ UNCHANGED <<backups, now, tz, reply>>

\* The handler answered without calling a store method that writes.
Answer(op, year, month, name, role, status) ==
  /\ last' = Request(op, year, month, name, role, "none", status)
  /\ UNCHANGED <<data, disk, backups, now, tz, reply>>

\* POST /api/add_member.  A field is missing when it is falsy: 0 or "".
AddMemberReq(year, month, name, role) ==
  IF year = 0 \/ month = 0 \/ name = "" \/ role = ""
  THEN Answer("add_member", year, month, name, role, 400)
  ELSE Serve("add_member", year, month, name, role, addMember(data, year, month, name, role))

\* DELETE /api/member/:year/:month/:name.
DeleteMemberReq(year, month, name) ==
  Serve("delete_member", year, month, name, "", deleteMember(data, year, month, name))

\* PUT /api/member_role.
MemberRoleReq(year, month, name, role) ==
  IF year = 0 \/ month = 0 \/ name = "" \/ role = ""
  THEN Answer("member_role", year, month, name, role, 400)
  ELSE Serve("member_role", year, month, name, role, updateMemberRole(data, year, month, name, role))

\* PUT /api/member_orders.
MemberOrdersReq(year, month, orders) ==
  IF year = 0 \/ month = 0
  THEN Answer("member_orders", year, month, "", "", 400)
  ELSE Serve("member_orders", year, month, "", "", updateMemberOrder(data, year, month, orders))

\* POST /api/copy_previous_month.
CopyPreviousMonthReq(year, month) ==
  IF year = 0 \/ month = 0
  THEN Answer("copy_previous_month", year, month, "", "", 400)
  ELSE Serve("copy_previous_month", year, month, "", "", copyFromPreviousMonth(data, year, month))

\* POST /api/attendance.
AttendanceReq(year, month, name, date, status) ==
  IF year = 0 \/ month = 0 \/ name = "" \/ date = "" \/ status.k = "undefined"
  THEN Answer("attendance", year, month, name, "", 400)
  ELSE Serve("attendance", year, month, name, "",
             updateAttendance(data, year, month, name, date, status))

\* The handler called restoreFromBackup or importMonthData, which left r
\* behind; the result is sent with res.json, status 200, whatever it reports.
ServeBackup(op, year, month, r) ==
  /\ data' = r.data
  /\ disk' = IF r.saved THEN JSONDocument(r.data) ELSE disk
  /\ backups' = r.backups
  /\ last' = Request(op, year, month, "", "", r.ret, 200)
  /\ UNCHANGED <<now, tz, reply>>

\* POST /api/import_month_data.  payload.missing stands for a request
\* without the data field.
ImportMonthDataReq(year, month, payload) ==
  IF year = 0 \/ month = 0 \/ payload.missing
  THEN Answer("import_month_data", year, month, "", "", 400)
  ELSE IF month < 1 \/ month > 12
  THEN Answer("import_month_data", year, month, "", "", 400)
  ELSE ServeBackup("import_month_data", year, month,
                   importMonthData(data, backups, now, year, month, payload))

\* POST /api/backup/restore.  The empty filename stands for a request
\* without one.
BackupRestoreReq(filename) ==
  IF filename = <<>>
  THEN Answer("backup_restore", 0, 0, "", "", 400)
  ELSE ServeBackup("backup_restore", 0, 0, restoreFromBackup(data, disk, backups, now, filename))

\* POST /api/backup/create.  The empty description stands for a request
\* without one.
BackupCreateReq(description) ==
  /\ backups' = createManualBackup(backups, now, data, description)
  /\ last' = Request("backup_create", 0, 0, "", "", "none", 200)
  /\ UNCHANGED <<data, disk, now, tz, reply>>

\* DELETE /api/backup/:filename.  fs.unlinkSync removes the file the joined
\* path leads to: a file of BACKUP_DIR, or DATA_FILE.
BackupDeleteReq(filename) ==
  LET filePath == JoinBackupDir(filename)
  IN IF ~ExistsSync(backups, disk, filePath)
     THEN Answer("backup_delete", 0, 0, "", "", 404)
     ELSE IF ~StartsWith(filename, "backup_")
     THEN Answer("backup_delete", 0, 0, "", "", 403)
     ELSE /\ backups' = (IF filePath.dir = "backups"
                          THEN Unlink(backups, filePath.name) ELSE backups)
          /\ disk' = (IF filePath.dir = "cwd" THEN EmptyObject ELSE disk)
          /\ last' = Request("backup_delete", 0, 0, "", "", "none", 200)
          /\ UNCHANGED <<data, now, tz, reply>>

\* The hour of the daily automatic backup.
BackupHour == 2

\* scheduleAutoBackup: the first backup is due at 02:00 of the day after
\* the start, the next ones every 24 hours.  The time of the first backup
\* due after clock time t.
NextBackupTime(t) ==
  LET first == SecondsPerDay + BackupHour * 3600
  IN IF t < first THEN first
     ELSE first + SecondsPerDay * (((t - first) \div SecondsPerDay) + 1)

\* The timer fires: time has passed until the backup is due, and
\* createAutoBackup runs.
AutoBackupTimer ==
  /\ now' = NextBackupTime(now)
  /\ backups' = createAutoBackup(backups, now', data)
  /\ last' = Request("auto_backup", 0, 0, "", "", "none", 0)
  /\ UNCHANGED <<data, disk, tz, reply>>

\* A GET handler with valid year and month sent the body it computed.
Send(op, year, month, body) ==
  /\ last' = Request(op, year, month, "", "", "none", 200)
  /\ reply' = body
  /\ UNCHANGED <<data, disk, backups, now, tz>>

\* GET /api/members/:year/:month.
MembersReq(year, month) ==
  IF month < 1 \/ month > 12
  THEN Answer("members", year, month, "", "", 400)
  ELSE Send("members", year, month,
            [NoReply EXCEPT !.members = getMonthMembers(data, year, month)])

\* GET /api/monthly_report/:year/:month.
MonthlyReportReq(year, month) ==
  IF month < 1 \/ month > 12
  THEN Answer("monthly_report", year, month, "", "", 400)
  ELSE Send("monthly_report", year, month,
            [NoReply EXCEPT !.report = exportMonthData(data, tz, year, month)])

\* GET /api/dates/:year/:month.
DatesReq(year, month) ==
  IF month < 1 \/ month > 12
  THEN Answer("dates", year, month, "", "", 400)
  ELSE Send("dates", year, month,
            [NoReply EXCEPT !.dates = getMonthDates(year, month, tz)])

\* GET /api/export/:year/:month.
ExportReq(year, month) ==
  IF month < 1 \/ month > 12
  THEN Answer("export", year, month, "", "", 400)
  ELSE Send("export", year, month,
            [NoReply EXCEPT !.report = exportMonthData(data, tz, year, month)])

\* ------------------------------------------------------------------------
\* The roster service: the store operations both variants share
\* ------------------------------------------------------------------------

\* The largest display rank a client sends in a reorder request.
MaxOrder == 1

\* The requests of this specification: December 2024 and January 2025, two
\* ordinary member names and one name every object inherits, two roles, one
\* meeting date, the status 1.
YearMonths == {<<2024, 12>>, <<2025, 1>>}
Names == {"kim", "lee", "constructor"}
AddRoles == {"pacer"}
NewRoles == {"pacer", "photo"}
RoleNames == {"kim", "constructor"}
AttendanceNames == {"kim", "constructor"}
DateKeys == {"2025-01-06"}
Statuses == {JNum(1)}

OrderPairs == {[name |-> n, order |-> o] : n \in Names, o \in 0..MaxOrder}
OrderLists == {<<>>} \cup {<<p>> : p \in OrderPairs}

Init ==
  /\ data = EmptyObject
  /\ disk = EmptyObject
  /\ backups = EmptyObject
  /\ now = 0
  /\ tz = 0
  /\ last = NoRequest
  /\ reply = NoReply

AddMember == \E ym \in YearMonths, name \in Names, role \in AddRoles :
  AddMemberReq(ym[1], ym[2], name, role)

DeleteMember == \E ym \in YearMonths, name \in Names :
  DeleteMemberReq(ym[1], ym[2], name)

MemberRole == \E ym \in YearMonths, name \in RoleNames, role \in NewRoles :
  MemberRoleReq(ym[1], ym[2], name, role)

MemberOrders == \E ym \in YearMonths, orders \in OrderLists :
  MemberOrdersReq(ym[1], ym[2], orders)

CopyPreviousMonth == \E ym \in YearMonths :
  CopyPreviousMonthReq(ym[1], ym[2])

Attendance == \E ym \in YearMonths, name \in AttendanceNames, date \in DateKeys, status \in Statuses :
  AttendanceReq(ym[1], ym[2], name, date, status)

Next ==
  \/ AddMember
  \/ DeleteMember
  \/ MemberRole
  \/ MemberOrders
  \/ CopyPreviousMonth
  \/ Attendance

Spec == Init /\ [][Next]_vars

\* ------------------------------------------------------------------------
\* The dates service: GET /api/dates on hosts at several UTC offsets
\* ------------------------------------------------------------------------

\* Hosts in New York (UTC-5), on UTC and in Seoul (UTC+9).
HostOffsets == {-5, 0, 9}
DatesYears == {2024, 2025, 2026}
DatesMonths == 0..13

InitDates ==
  /\ data = EmptyObject
  /\ disk = EmptyObject
  /\ backups = EmptyObject
  /\ now = 0
  /\ tz \in HostOffsets
  /\ last = NoRequest
  /\ reply = NoReply

Dates == \E year \in DatesYears, month \in DatesMonths : DatesReq(year, month)

NextDates == Dates

SpecDates == InitDates /\ [][NextDates]_vars

\* ------------------------------------------------------------------------
\* The statistics service: calculateMonthlyStats on the rosters of January
\* 2025 that have one member, on hosts at several UTC offsets
\* ------------------------------------------------------------------------

\* A call of calculateMonthlyStats (monthly_report and export make one for
\* each member).
MonthlyStatsCall(year, month, name) ==
  /\ last' = Request("monthly_stats", year, month, name, "", "none", 0)
  /\ reply' = [NoReply EXCEPT !.stats = calculateMonthlyStats(data, tz, year, month, name)]
  /\ UNCHANGED <<data, disk, backups, now, tz>>

\* The roles of the table, a role outside it, and a role that is an
\* inherited property name.
StatsRoles == {"unyeongjin", "pacer", "pacer gangnam", "photo", "guest", "constructor"}

\* Wednesday 1, Thursday 2, Monday 6, Tuesday 7 and Wednesday 8 January 2025.
StatsDates == {"2025-01-01", "2025-01-02", "2025-01-06", "2025-01-07", "2025-01-08"}

\* The attendance maps: each date marked 1, marked 0 or not marked.
StatsAttendances ==
  UNION {[marked -> {Num(0), Num(1)}] : marked \in SUBSET StatsDates}

StatsNames == {"kim", "lee", "constructor"}
StatsYearMonths == {<<2025, 1>>, <<2025, 2>>}

InitStats ==
  /\ \E role \in StatsRoles, attendance \in StatsAttendances :
       data = [monthKey \in {"2025-01"} |->
                 [name \in {"kim"} |->
                    [role |-> role, attendance |-> attendance, order |-> 0]]]
  /\ disk = JSONDocument(data)
  /\ backups = EmptyObject
  /\ now = 0
  /\ tz \in HostOffsets
  /\ last = NoRequest
  /\ reply = NoReply

MonthlyStats == \E ym \in StatsYearMonths, name \in StatsNames :
  MonthlyStatsCall(ym[1], ym[2], name)

NextStats == MonthlyStats

SpecStats == InitStats /\ [][NextStats]_vars

\* ------------------------------------------------------------------------
\* The attendance service: marking attendance with the status values a
\* client can send, next to copy, import and restore
\* ------------------------------------------------------------------------

MarkedMonth == <<2025, 1>>
CopyMonths == {<<2025, 2>>}
MarkedNames == {"kim"}
MarkedDates == {"2025-01-06"}
ClientStatuses ==
  {JNum(0), JNum(1), JStr(<<"1">>), JNum(2), JStr(<<"a", "b", "c">>)}

\* Import payloads as exportMonthData writes them: no members, or one member
\* with one attended day.
Payload(hasMembers, members) ==
  [missing |-> FALSE, hasMembers |-> hasMembers, members |-> members]
ExportedPayloads ==
  {Payload(FALSE, <<>>),
   Payload(TRUE, <<Entry("kim", "pacer", TRUE, Put(EmptyObject, "2025-01-06", Num(1)), TRUE, 0)>>)}

AttendanceAddMember == \E name \in MarkedNames :
  AddMemberReq(MarkedMonth[1], MarkedMonth[2], name, "pacer")

AttendanceMark == \E name \in MarkedNames, date \in MarkedDates, status \in ClientStatuses :
  AttendanceReq(MarkedMonth[1], MarkedMonth[2], name, date, status)

AttendanceCopy == \E ym \in CopyMonths :
  CopyPreviousMonthReq(ym[1], ym[2])

AttendanceImport == \E payload \in ExportedPayloads :
  ImportMonthDataReq(MarkedMonth[1], MarkedMonth[2], payload)

AttendanceRestore == \E filename \in Keys(backups) \cup {<<"missing.json">>} :
  BackupRestoreReq(filename)

NextAttendance ==
  \/ AttendanceAddMember
  \/ AttendanceMark
  \/ AttendanceCopy
  \/ AttendanceImport
  \/ AttendanceRestore

SpecAttendance == Init /\ [][NextAttendance]_vars

\* ------------------------------------------------------------------------
\* The HTTP service: every route that carries a year and a month, with
\* months inside and outside 1..12
\* ------------------------------------------------------------------------

HttpYearMonths == {<<2025, 12>>, <<2025, 13>>, <<2025, 0>>}
HttpNames == {"kim"}
HttpRoles == {"pacer"}
HttpDateKeys == {"2025-12-01"}
HttpStatuses == {JNum(1)}
HttpOrders == {<<[name |-> "kim", order |-> 0]>>}
HttpPayloads == {Payload(FALSE, <<>>)}

HttpMembers == \E ym \in HttpYearMonths : MembersReq(ym[1], ym[2])

HttpAddMember == \E ym \in HttpYearMonths, name \in HttpNames, role \in HttpRoles :
  AddMemberReq(ym[1], ym[2], name, role)

HttpDeleteMember == \E ym \in HttpYearMonths, name \in HttpNames :
  DeleteMemberReq(ym[1], ym[2], name)

HttpMemberRole == \E ym \in HttpYearMonths, name \in HttpNames, role \in HttpRoles :
  MemberRoleReq(ym[1], ym[2], name, role)

HttpMemberOrders == \E ym \in HttpYearMonths, orders \in HttpOrders :
  MemberOrdersReq(ym[1], ym[2], orders)

HttpCopyPreviousMonth == \E ym \in HttpYearMonths :
  CopyPreviousMonthReq(ym[1], ym[2])

HttpAttendance ==
  \E ym \in HttpYearMonths, name \in HttpNames, date \in HttpDateKeys, status \in HttpStatuses :
    AttendanceReq(ym[1], ym[2], name, date, status)

HttpMonthlyReport == \E ym \in HttpYearMonths : MonthlyReportReq(ym[1], ym[2])

HttpGetDates == \E ym \in HttpYearMonths : DatesReq(ym[1], ym[2])

HttpExport == \E ym \in HttpYearMonths : ExportReq(ym[1], ym[2])

HttpImportMonthData == \E ym \in HttpYearMonths, payload \in HttpPayloads :
  ImportMonthDataReq(ym[1], ym[2], payload)

NextHttp ==
  \/ HttpMembers
  \/ HttpAddMember
  \/ HttpDeleteMember
  \/ HttpMemberRole
  \/ HttpMemberOrders
  \/ HttpCopyPreviousMonth
  \/ HttpAttendance
  \/ HttpMonthlyReport
  \/ HttpGetDates
  \/ HttpExport
  \/ HttpImportMonthData

SpecHttp == Init /\ [][NextHttp]_vars

\* ------------------------------------------------------------------------
\* The export service: a client exports a month and posts the export to
\* import_month_data, on hosts at several UTC offsets
\* ------------------------------------------------------------------------

\* The entries of Object.keys(report) for the names left: exportMonthData
\* inserted them by ascending order.
RECURSIVE ReportEntries(_, _)
ReportEntries(report, names) ==
  IF names = {} THEN <<>>
  ELSE LET name == CHOOSE n \in names : \A m \in names : report[n].order <= report[m].order
       IN <<Entry(name, report[name].role, TRUE, report[name].attendance,
                  TRUE, report[name].order)>>
            \o ReportEntries(report, names \ {name})

\* The body of POST /api/import_month_data whose data field is the body of
\* GET /api/export: importMonthData reads members and, of each member, role,
\* attendance and order.
PayloadOfExport(exported) ==
  Payload(TRUE, ReportEntries(exported.members, Keys(exported.members)))

ExportedMonth == <<2025, 1>>
ImportTargets == {<<2025, 2>>}
ExportNames == {"kim", "lee"}
\* Monday 6 and Tuesday 7 January 2025.
ExportDateKeys == {"2025-01-06", "2025-01-07"}
ExportStatuses == {JNum(0), JNum(1)}

ExportAddMember == \E name \in ExportNames :
  AddMemberReq(ExportedMonth[1], ExportedMonth[2], name, "pacer")

ExportMark == \E date \in ExportDateKeys, status \in ExportStatuses :
  AttendanceReq(ExportedMonth[1], ExportedMonth[2], "kim", date, status)

ExportMonth == ExportReq(ExportedMonth[1], ExportedMonth[2])

\* The client posts the export it has just received.
ExportImport == \E ym \in ImportTargets :
  /\ last.op = "export" /\ last.status = 200
  /\ ImportMonthDataReq(ym[1], ym[2], PayloadOfExport(reply.report))

NextExport ==
  \/ ExportAddMember
  \/ ExportMark
  \/ ExportMonth
  \/ ExportImport

SpecExport == InitDates /\ [][NextExport]_vars

\* ------------------------------------------------------------------------
\* The import service: POST /api/import_month_data with payloads whose
\* entries miss fields, are null, or are named "__proto__"
\* ------------------------------------------------------------------------

ImportMonth == <<2025, 1>>
OtherMonth == <<2025, 2>>
ImportEntrySet ==
  {Entry("kim", "", FALSE, EmptyObject, FALSE, 0),
   Entry("lee", "photo", TRUE, Put(EmptyObject, "2025-01-06", Num(1)), TRUE, 5),
   Entry("__proto__", "pacer", FALSE, EmptyObject, FALSE, 0),
   NullEntry("park")}

\* No members, or up to two entries with different names.
ImportPayloads ==
  {Payload(FALSE, <<>>), Payload(TRUE, <<>>)}
    \cup {Payload(TRUE, <<e>>) : e \in ImportEntrySet}
    \cup {Payload(TRUE, <<p[1], p[2]>>) :
            p \in {q \in ImportEntrySet \X ImportEntrySet : q[1] # q[2]}}

ImportAddMember == \E ym \in {ImportMonth, OtherMonth} :
  AddMemberReq(ym[1], ym[2], "kim", "pacer")

ImportMonthData == \E payload \in ImportPayloads :
  ImportMonthDataReq(ImportMonth[1], ImportMonth[2], payload)

NextImport ==
  \/ ImportAddMember
  \/ ImportMonthData

SpecImport == Init /\ [][NextImport]_vars

\* ------------------------------------------------------------------------
\* The store service: every operation that writes the store, backup
\* restore included, on one member and two months
\* ------------------------------------------------------------------------

StoreMonth == <<2025, 1>>
NextMonth == <<2025, 2>>
StoreNames == {"kim"}
StoreDateKeys == {"2025-01-06"}
StoreOrders == {<<>>, <<[name |-> "kim", order |-> 0]>>}
\* Attended, and a status parseInt turns into NaN.
StoreStatuses == {JNum(1), JStr(<<"a", "b", "c">>)}

StoreAddMember == \E name \in StoreNames :
  AddMemberReq(StoreMonth[1], StoreMonth[2], name, "pacer")

StoreDeleteMember == \E name \in StoreNames :
  DeleteMemberReq(StoreMonth[1], StoreMonth[2], name)

StoreMemberRole == \E name \in StoreNames :
  MemberRoleReq(StoreMonth[1], StoreMonth[2], name, "pacer")

StoreMemberOrders == \E orders \in StoreOrders :
  MemberOrdersReq(StoreMonth[1], StoreMonth[2], orders)

StoreAttendance ==
  \E name \in StoreNames, date \in StoreDateKeys, status \in StoreStatuses :
    AttendanceReq(StoreMonth[1], StoreMonth[2], name, date, status)

StoreCopyPreviousMonth == CopyPreviousMonthReq(NextMonth[1], NextMonth[2])

StoreImportMonthData ==
  ImportMonthDataReq(StoreMonth[1], StoreMonth[2], Payload(FALSE, <<>>))

\* The names a client sends besides those of the archives: one no file
\* has, and a path from BACKUP_DIR to DATA_FILE.
OtherRestoreNames == {<<"missing.json">>, <<"..", "/">> \o DATA_FILE}

StoreBackupRestore == \E filename \in Keys(backups) \cup OtherRestoreNames :
  BackupRestoreReq(filename)

NextStore ==
  \/ StoreAddMember
  \/ StoreDeleteMember
  \/ StoreMemberRole
  \/ StoreMemberOrders
  \/ StoreAttendance
  \/ StoreCopyPreviousMonth
  \/ StoreImportMonthData
  \/ StoreBackupRestore

SpecStore == Init /\ [][NextStore]_vars

\* ------------------------------------------------------------------------
\* The backup service: manual backups, restores and deletions by clients
\* during the first days, and the daily automatic backup with its cleaning
\* ------------------------------------------------------------------------

\* A second passes, during the first MaxSeconds seconds.
MaxSeconds == 1

\* Clients send requests up to day MaxClientDay; the timer runs up to day
\* MaxDays, when the backups of the first days are more than thirty days old.
MaxClientDay == 1
MaxDays == 32

ClientsActive == now \div SecondsPerDay <= MaxClientDay

BackupDescriptions == {<<>>}

\* The names a client asks to delete besides those of the files: one no
\* file has, and for each file a path that starts with "backup_" and leads
\* to that file.
DeleteNames ==
  Keys(backups) \cup {<<"missing.json">>}
    \cup {<<"backup_", "/", "..", "/">> \o file : file \in Keys(backups)}

BackupTick ==
  /\ now < MaxSeconds
  /\ now' = now + 1
  /\ UNCHANGED <<data, disk, backups, tz, last, reply>>

BackupAddMember ==
  /\ ClientsActive
  /\ AddMemberReq(2025, 1, "kim", "pacer")

BackupCreate == \E description \in BackupDescriptions :
  /\ ClientsActive
  /\ BackupCreateReq(description)

BackupRestore == \E filename \in Keys(backups) :
  /\ ClientsActive
  /\ BackupRestoreReq(filename)

BackupDelete == \E filename \in DeleteNames :
  /\ ClientsActive
  /\ BackupDeleteReq(filename)

BackupTimer ==
  /\ NextBackupTime(now) \div SecondsPerDay <= MaxDays
  /\ AutoBackupTimer

NextBackup ==
  \/ BackupTick
  \/ BackupAddMember
  \/ BackupCreate
  \/ BackupRestore
  \/ BackupDelete
  \/ BackupTimer

SpecBackup == Init /\ [][NextBackup]_vars

\* ------------------------------------------------------------------------
\* The reorder service: PUT /api/member_orders with lists of up to two
\* pairs, which may name a member twice or name no member
\* ------------------------------------------------------------------------

ReorderMonths == {<<2025, 1>>, <<2025, 2>>}
ReorderMembers == {"kim", "lee"}
\* The members, a name no member has, and a name every object inherits.
ReorderNames == {"kim", "lee", "park", "constructor"}
ReorderOrders == {0, 1}
ReorderPairs == {[name |-> n, order |-> o] : n \in ReorderNames, o \in ReorderOrders}
ReorderLists ==
  {<<>>} \cup {<<p>> : p \in ReorderPairs}
         \cup {<<p, q>> : p \in ReorderPairs, q \in ReorderPairs}

ReorderAddMember == \E name \in ReorderMembers :
  AddMemberReq(2025, 1, name, "pacer")

ReorderAttendance == \E name \in ReorderMembers :
  AttendanceReq(2025, 1, name, "2025-01-06", JNum(1))

ReorderMemberOrders == \E ym \in ReorderMonths, orders \in ReorderLists :
  MemberOrdersReq(ym[1], ym[2], orders)

NextReorder ==
  \/ ReorderAddMember
  \/ ReorderAttendance
  \/ ReorderMemberOrders

SpecReorder == Init /\ [][NextReorder]_vars

\* ------------------------------------------------------------------------
\* Claims on the roster service
\* ------------------------------------------------------------------------

\* The month key the request `last` names, and whether a store method ran.
KeyOf(req) == getMonthKey(req.year, req.month)
Called(req, op) == req.op = op /\ req.ret # "none"

\* name is a member of the month's roster in store d.
IsMember(d, monthKey, name) == monthKey \in Keys(d) /\ name \in Keys(d[monthKey])

\* Every month of d other than monthKey is in e, unchanged, and e has no
\* other month besides.
OtherMonthsSame(d, e, monthKey) ==
  /\ Keys(e) \ {monthKey} = Keys(d) \ {monthKey}
  /\ \A k \in Keys(d) \ {monthKey} : e[k] = d[k]

\* The key of the calendar month before (year, month), for month in 1..12.
PreviousKey(year, month) ==
  IF month = 1 THEN getMonthKey(year - 1, 12) ELSE getMonthKey(year, month - 1)

\* C1: when name is already a member of the month's roster, addMember
\* returns false and leaves the in-memory store and the persisted document
\* as they were.
C1_AddExistingMember ==
  [][(Called(last', "add_member") /\ IsMember(data, KeyOf(last'), last'.name))
       => (last'.ret = "false" /\ data' = data /\ disk' = disk)]_vars

\* C1's case: addMember has just refused a name that is a member, whose
\* record holds attendance, in a roster of two.
C1_Witness ==
  /\ Called(last, "add_member") /\ last.ret = "false"
  /\ IsMember(data, KeyOf(last), last.name)
  /\ data[KeyOf(last)][last.name].attendance # EmptyObject
  /\ Cardinality(Keys(data[KeyOf(last)])) = 2

\* C2: when name is not a member of the month's roster, addMember returns
\* true and the roster then holds name with the given role, no attendance and
\* order = the number of members before; every other record and every other
\* month is unchanged.
C2_AddNewMember ==
  [][(Called(last', "add_member") /\ ~IsMember(data, KeyOf(last'), last'.name))
       => LET monthKey == KeyOf(last')
              before == getMonthMembers(data, last'.year, last'.month)
          IN /\ last'.ret = "true"
             /\ IsMember(data', monthKey, last'.name)
             /\ data'[monthKey][last'.name] =
                  [role |-> last'.role, attendance |-> EmptyObject,
                   order |-> Cardinality(Keys(before))]
             /\ Keys(data'[monthKey]) = Keys(before) \cup {last'.name}
             /\ \A n \in Keys(before) : data'[monthKey][n] = before[n]
             /\ OtherMonthsSame(data, data', monthKey)]_vars

\* C3: deleteMember, updateMemberRole and updateAttendance return false
\* exactly when the month or the member does not exist, updateMemberOrder
\* exactly when the month does not exist; a call that returns false changes
\* neither the store nor the persisted document, and none throws.
C3_NotFound ==
  [][/\ \A op \in {"delete_member", "member_role", "attendance"} :
          Called(last', op) =>
            /\ last'.ret \in {"true", "false"}
            /\ last'.ret = "false" <=> ~IsMember(data, KeyOf(last'), last'.name)
     /\ Called(last', "member_orders") =>
          /\ last'.ret \in {"true", "false"}
          /\ last'.ret = "false" <=> KeyOf(last') \notin Keys(data)
     /\ \A op \in {"delete_member", "member_role", "attendance", "member_orders"} :
          (Called(last', op) /\ last'.ret = "false") => (data' = data /\ disk' = disk)
    ]_vars

\* C4: copyFromPreviousMonth reads the month before (December of the year
\* before, for January): it returns false exactly when that month has no
\* roster, and then the store and the persisted document are as they were.
C4_CopyWithoutPrevious ==
  [][Called(last', "copy_previous_month") =>
       LET prevMonthKey == PreviousKey(last'.year, last'.month)
       IN /\ last'.ret = "false" <=> prevMonthKey \notin Keys(data)
          /\ last'.ret = "false" => (data' = data /\ disk' = disk)]_vars

\* C4's case: copying into January 2025, which has a member, has just
\* failed because 2024-12 has no roster.
C4_Witness ==
  /\ Called(last, "copy_previous_month") /\ last.ret = "false"
  /\ last.year = 2025 /\ last.month = 1
  /\ "2024-12" \notin Keys(data)
  /\ "2025-01" \in Keys(data) /\ Keys(data["2025-01"]) # {}

\* C5: when the previous month has a roster, copyFromPreviousMonth returns
\* true and the target roster then has exactly the previous month's names,
\* each with that month's role and order and no attendance; the previous
\* month and every other month is unchanged, the store is persisted, and an
\* updateAttendance changes no month but the one it names.
C5_CopyFromPrevious ==
  [][/\ (Called(last', "copy_previous_month")
          /\ PreviousKey(last'.year, last'.month) \in Keys(data)) =>
          LET monthKey == KeyOf(last')
              prev == data[PreviousKey(last'.year, last'.month)]
          IN /\ last'.ret = "true"
             /\ monthKey \in Keys(data')
             /\ Keys(data'[monthKey]) = Keys(prev)
             /\ \A n \in Keys(prev) :
                  data'[monthKey][n] =
                    [role |-> prev[n].role, attendance |-> EmptyObject,
                     order |-> prev[n].order]
             /\ OtherMonthsSame(data, data', monthKey)
             /\ disk' = JSONDocument(data')
     /\ Called(last', "attendance") => OtherMonthsSame(data, data', KeyOf(last'))
    ]_vars

\* C5's case: January 2025 has just been copied from 2024-12, where a member
\* has attendance; the copy of that member has none.
C5_Witness ==
  /\ Called(last, "copy_previous_month") /\ last.ret = "true"
  /\ last.year = 2025 /\ last.month = 1
  /\ \E n \in Keys(data["2024-12"]) :
       /\ data["2024-12"][n].attendance # EmptyObject
       /\ data["2025-01"][n].attendance = EmptyObject
       /\ data["2025-01"][n].order = data["2024-12"][n].order
  /\ Cardinality(Keys(data["2025-01"])) = 2

\* ------------------------------------------------------------------------
\* Claims on the dates service
\* ------------------------------------------------------------------------

\* The Mondays, Wednesdays and Thursdays of a month, from day d on.
RECURSIVE MeetingDaysFrom(_, _, _)
MeetingDaysFrom(year, month, d) ==
  IF d > DaysInMonth(year, month) THEN <<>>
  ELSE (IF Weekday(year, month, d) \in {1, 3, 4} THEN <<<<year, month, d>>>> ELSE <<>>)
       \o MeetingDaysFrom(year, month, d + 1)

\* C10: for every year, every month in 1..12 and every UTC offset of the
\* host, getMonthDates returns exactly the Mondays, Wednesdays and Thursdays
\* of that month, as YYYY-MM-DD strings in ascending order.
C10_MeetingDates ==
  (last.op = "dates" /\ last.status = 200) =>
     LET days == MeetingDaysFrom(last.year, last.month, 1)
     IN reply.dates = [i \in 1..Len(days) |-> DateString(days[i])]

\* What does hold: on a host at or west of UTC the dates are the month's
\* Mondays, Wednesdays and Thursdays; on a host east of UTC each date is the
\* day before one.
C10_DatesByOffset ==
  (last.op = "dates" /\ last.status = 200) =>
     LET days == MeetingDaysFrom(last.year, last.month, 1)
     IN reply.dates =
          [i \in 1..Len(days) |->
             DateString(IF tz > 0 THEN PrevDay(days[i][1], days[i][2], days[i][3])
                        ELSE days[i])]

\* ------------------------------------------------------------------------
\* Claims on the statistics service
\* ------------------------------------------------------------------------

\* The requirement table as the specification states it.
RequiredTotal(role) ==
  CASE role = "pacer" -> 3 [] role = "pacer gangnam" -> 3 [] role = "photo" -> 1 [] OTHER -> 0
RequiredWednesday(role) ==
  CASE role = "pacer gangnam" -> 2 [] OTHER -> 0

\* C8: for an existing member, meets_requirement is true for the admin-tier
\* role, and for any other role it is false exactly when total is below the
\* role's required total or wednesday below its required Wednesdays.
C8_MeetsRequirement ==
  (last.op = "monthly_stats" /\ IsMember(data, KeyOf(last), last.name)) =>
     LET role == data[KeyOf(last)][last.name].role
         stats == reply.stats
     IN /\ "meets_requirement" \in DOMAIN stats
        /\ stats.meets_requirement =
             (role = "unyeongjin"
              \/ ~(stats.total < RequiredTotal(role)
                   \/ stats.wednesday < RequiredWednesday(role)))

\* C8's case: a "pacer gangnam" with three attended dates of which fewer
\* than two count as Wednesdays does not meet the requirement.
C8_Witness ==
  /\ last.op = "monthly_stats" /\ IsMember(data, KeyOf(last), last.name)
  /\ data[KeyOf(last)][last.name].role = "pacer gangnam"
  /\ reply.stats.total >= 3 /\ reply.stats.wednesday < 2
  /\ reply.stats.meets_requirement = FALSE

\* C9: whether or not the member exists, the record of calculateMonthlyStats
\* carries required_total and required_wednesday besides total, wednesday
\* and meets_requirement; for an absent member or month it has total = 0,
\* wednesday = 0 and meets_requirement = false.
C9_StatsRecord ==
  last.op = "monthly_stats" =>
     /\ DOMAIN reply.stats = {"total", "wednesday", "meets_requirement",
                               "required_total", "required_wednesday"}
     /\ ~IsMember(data, KeyOf(last), last.name) =>
          /\ reply.stats.total = 0
          /\ reply.stats.wednesday = 0
          /\ reply.stats.meets_requirement = FALSE


\* The meeting dates of a month on which an attendance map holds 1.
AttendedMeetingDays(attendance, year, month) ==
  LET days == MeetingDaysFrom(year, month, 1)
  IN {i \in 1..Len(days) :
        /\ DateString(days[i]) \in Keys(attendance)
        /\ attendance[DateString(days[i])] = Num(1)}

\* C11: for every existing member and every host UTC offset,
\* calculateMonthlyStats returns total = the number of meeting dates of the
\* month marked 1 and wednesday = the number of those that are Wednesdays;
\* entries keyed by other dates are not counted.
C11_StatsCounts ==
  (last.op = "monthly_stats" /\ IsMember(data, KeyOf(last), last.name)) =>
     LET attendance == data[KeyOf(last)][last.name].attendance
         days == MeetingDaysFrom(last.year, last.month, 1)
         attended == AttendedMeetingDays(attendance, last.year, last.month)
     IN /\ "total" \in DOMAIN reply.stats
        /\ reply.stats.total = Cardinality(attended)
        /\ reply.stats.wednesday =
             Cardinality({i \in attended :
                            Weekday(days[i][1], days[i][2], days[i][3]) = 3})

\* ------------------------------------------------------------------------
\* Claims on the attendance service
\* ------------------------------------------------------------------------

\* C6: in every reachable state of the store, after any sequence of
\* addMember, updateAttendance (with any status a client can send),
\* copyFromPreviousMonth, importMonthData and restoreFromBackup, every value
\* in every member's attendance map is exactly 0 or 1.
C6_AttendanceValues ==
  \A monthKey \in Keys(data) : \A name \in Keys(data[monthKey]) :
    \A date \in Keys(data[monthKey][name].attendance) :
      data[monthKey][name].attendance[date] \in {Num(0), Num(1)}


\* ------------------------------------------------------------------------
\* Claims on the export service
\* ------------------------------------------------------------------------

\* C12: exporting a month that has a roster and importing that export into
\* a month that has no roster yields a roster with the same member names
\* and, for each member, the same role, attendance map and order.
C12_ExportImportRoundTrip ==
  [][(/\ last.op = "export" /\ last.status = 200
      /\ KeyOf(last) \in Keys(data)
      /\ last'.op = "import_month_data"
      /\ KeyOf(last') \notin Keys(data))
     => (/\ last'.ret = "true"
         /\ KeyOf(last') \in Keys(data')
         /\ data'[KeyOf(last')] = data[KeyOf(last)])]_vars

\* ------------------------------------------------------------------------
\* Claims on the import service
\* ------------------------------------------------------------------------

\* The names of the entries of a payload's members.
PayloadNames(payload) ==
  IF payload.hasMembers
  THEN {payload.members[i].name : i \in 1..Len(payload.members)}
  ELSE {}

\* The roster is what the claim says an import of the payload leaves: one
\* record for each entry, a missing role defaulted to the placeholder, a
\* missing attendance to the empty map, a missing order to the position.
IsImportOf(roster, payload) ==
  /\ Keys(roster) = PayloadNames(payload)
  /\ \A i \in 1..Len(payload.members) :
       LET entry == payload.members[i]
       IN (payload.hasMembers /\ entry.name \in Keys(roster)) =>
            /\ roster[entry.name].role =
                 (IF entry.role = "" THEN "mijeong" ELSE entry.role)
            /\ roster[entry.name].attendance =
                 (IF entry.hasAttendance THEN entry.attendance ELSE EmptyObject)
            /\ roster[entry.name].order =
                 (IF entry.hasOrder THEN entry.order ELSE i - 1)

\* C13: an import that succeeds replaces the target month's roster: its
\* member names are exactly the keys of payload.members, missing fields are
\* defaulted, and every other month of the store is unchanged.
C13_ImportReplaces ==
  [][\A payload \in ImportPayloads :
       (/\ ImportMonthDataReq(ImportMonth[1], ImportMonth[2], payload)
        /\ last'.ret = "true")
       => (/\ KeyOf(last') \in Keys(data')
           /\ IsImportOf(data'[KeyOf(last')], payload)
           /\ OtherMonthsSame(data, data', KeyOf(last')))]_vars

\* C19: every handler runs to its end before the next one starts, changes
\* the store first and writes the whole store last; so between requests the
\* persisted document is the serialisation of the in-memory store.
C19_PersistedEqualsMemory == disk = JSONDocument(data)

\* C20: when importMonthData returns its failure result, the target month's
\* roster in the store is what it was before the call (absent if it was
\* absent), and the store still equals the persisted document.
C20_FailedImportNoChange ==
  [][\A payload \in ImportPayloads :
       (ImportMonthDataReq(ImportMonth[1], ImportMonth[2], payload) /\ last'.ret = "false")
       => /\ data' = data
          /\ disk' = JSONDocument(data')]_vars

\* ------------------------------------------------------------------------
\* Claims on the store service
\* ------------------------------------------------------------------------

\* C14 as stated: once a month's roster has been created, its month key
\* remains in the store in every later state, after any store operation,
\* backup restore included.
C14_MonthKeysRemain ==
  [][Keys(data) \subseteq Keys(data')]_vars

\* C14 amended: addMember, deleteMember, updateMemberRole,
\* updateMemberOrder, updateAttendance, copyFromPreviousMonth and
\* importMonthData remove no month key; a backup restore that succeeds
\* replaces the store by the data of the archive, whatever months it has,
\* and by the empty store when the name leads to a file that is no archive.
C14_MonthKeysRemainButRestore ==
  [][/\ last'.op # "backup_restore" => Keys(data) \subseteq Keys(data')
     /\ \A filename \in Keys(backups) \cup OtherRestoreNames :
          BackupRestoreReq(filename) =>
            data' = (IF filename \in Keys(backups) THEN backups[filename].data
                     ELSE IF last'.ret = "true" THEN EmptyObject ELSE data)]_vars

\* C14's case: the last member of a month has been deleted and the month
\* is still there, empty.
C14_Witness ==
  /\ last.op = "delete_member" /\ last.ret = "true"
  /\ KeyOf(last) \in Keys(data)
  /\ data[KeyOf(last)] = EmptyObject

\* C15: a restore that reports success has written an archive holding the
\* store as it was immediately before, leaves the live store equal to the
\* data of the restored archive and the persisted document equal to the
\* live store; a restore naming an archive that does not exist reports
\* failure and changes neither the store, the persisted document nor the
\* archives.  (An archive and the persisted document hold a store as its
\* JSON document.)
C15_RestoreSnapshots ==
  [][\A filename \in Keys(backups) \cup OtherRestoreNames :
       BackupRestoreReq(filename) =>
         /\ (last'.ret = "true") = (filename \in Keys(backups))
         /\ last'.ret = "true" =>
              /\ \E f \in Keys(backups') : backups'[f].data = JSONDocument(data)
              /\ filename \in Keys(backups) /\ data' = backups[filename].data
              /\ disk' = JSONDocument(data')
         /\ last'.ret # "true" =>
              /\ last'.ret = "false"
              /\ data' = data /\ disk' = disk /\ backups' = backups]_vars

\* ------------------------------------------------------------------------
\* Claims on the backup service
\* ------------------------------------------------------------------------

\* C16: a manually-tagged archive, once created, is never removed: the
\* cleaning of createAutoBackup removes only automatically-tagged archives
\* older than 30 days, and DELETE /api/backup/:filename answers 403 and
\* deletes nothing when the file it leads to exists and is not an
\* automatically-tagged archive.
C16_ManualArchivesKept ==
  [][/\ \A file \in Keys(backups) :
          StartsWith(file, "manual_") => file \in Keys(backups')
     /\ AutoBackupTimer =>
          \A file \in Keys(backups) \ Keys(backups') :
            /\ StartsWith(file, "backup_")
            /\ backups[file].backupDate < now' - RetentionDays * SecondsPerDay
     /\ \A filename \in DeleteNames :
          (/\ BackupDeleteReq(filename)
           /\ JoinBackupDir(filename).dir = "backups"
           /\ JoinBackupDir(filename).name \in Keys(backups)
           /\ ~StartsWith(JoinBackupDir(filename).name, "backup_"))
          => (last'.status = 403 /\ backups' = backups)]_vars

\* C17: every snapshot is written to a new archive entry: a manual backup,
\* an automatic backup or the safety backup of a restore never overwrites
\* an archive that already exists.
C17_SnapshotNamesUnique ==
  [][(\/ \E description \in BackupDescriptions : BackupCreateReq(description)
      \/ AutoBackupTimer
      \/ \E filename \in Keys(backups) :
           BackupRestoreReq(filename) /\ last'.ret = "true")
     => \E file \in Keys(backups') : file \notin Keys(backups)]_vars

\* ------------------------------------------------------------------------
\* Claims on the reorder service
\* ------------------------------------------------------------------------

\* The order of the last pair of the list that names the member; the list
\* has one.
LastOrderFor(orders, name) ==
  LET naming == {i \in 1..Len(orders) : orders[i].name = name}
  IN orders[CHOOSE i \in naming : \A j \in naming : j <= i].order

YearMonthRoutes ==
  {"members", "add_member", "delete_member", "member_role", "member_orders",
   "copy_previous_month", "attendance", "monthly_report", "dates", "export",
   "import_month_data"}

\* The month keys YYYY-01 .. YYYY-12.
ValidMonthKeys == {getMonthKey(year, month) : year \in 2024..2026, month \in 1..12}

\* C7: every request that carries a year and a month is rejected with
\* status 400 when the month is not in 1..12, and leaves the store
\* unchanged; no month key outside YYYY-01 .. YYYY-12 is ever created.
C7_MonthValidated ==
  [][/\ (last'.op \in YearMonthRoutes /\ last'.month \notin 1..12)
          => (last'.status = 400 /\ data' = data /\ disk' = disk)
     /\ Keys(data') \subseteq ValidMonthKeys]_vars

====
